---- MODULE Spec2Model ----
\* The stdio <-> Streamable HTTP bridge of
\* src/src/langgraph_mcp/streamable_http_mcp_server/server.py:
\* HTTP handlers (mcp_endpoint / send_mcp_request), the reader task
\* (read_mcp_responses), the child process and its pipes.
EXTENDS Integers, Sequences, FiniteSets, TLC

\* ---------------------------------------------------------------- bounds
NumCallers == 2      \* HTTP calls handled in one run
MaxLines == 2        \* lines read from the child's stdout in one run

\* ------------------------------------------------------- program constants
DefaultTimeout == 30             \* send_mcp_request(request, timeout=30.0)
InternalErrorCode == 0 - 32603   \* "code": -32603

Callers == 1..NumCallers

\* ------------------------------------------------------------ JSON values
\* A JSON id value: its type and, for numbers and strings, its digits.
JNum(n) == [t |-> "num", n |-> n]
JStr(n) == [t |-> "str", n |-> n]
JNull == [t |-> "null", n |-> 0]
JArray == [t |-> "array", n |-> 0]
\* the marker of a JSON object that has no "id" member
Absent == [t |-> "absent", n |-> 0]

\* "id" in obj
HasId(obj) == obj.id.t # "absent"

\* ids an HTTP caller may put in its message
ClientIds == {JNum(1), JStr(1)}

\* method names, as the list of their "/"-separated segments
Methods == {<<"ping">>, <<"notifications", "initialized">>}

\* a body request.json() cannot parse, or that is no JSON object
BadBody == [isObject |-> FALSE, id |-> Absent, method |-> <<>>]

\* inbound HTTP bodies: JSON objects with an optional id, and a bad body
Messages ==
    { m \in [isObject : {TRUE}, id : ClientIds \cup {Absent}, method : Methods] :
        m.method = <<"ping">> \/ m.id # JStr(1) }
    \cup {BadBody}

\* method.startswith("notifications/")
StartsWithNotifications(method) ==
    Len(method) >= 2 /\ method[1] = "notifications"

\* the default were it JSON's null
GetIdOrZero_OrNull(message) == IF HasId(message) THEN message.id ELSE JNull

\* message.get("id", 0)
GetIdOrZero(message) == IF HasId(message) THEN message.id ELSE JNum(0)

\* request.get("id")
GetIdOrNone(request) == IF HasId(request) THEN request.id ELSE JNull

\* request["id"] = internal_id
SetInternalId(request, internal_id) ==
    [request EXCEPT !.id = JNum(internal_id)]

\* --------------------------------------------------------- child's lines
\* kind: "obj" (a JSON object), "badjson" (unparseable text), "badutf8"
\* (undecodable bytes), "jsonnumber" and "jsonarray" (valid JSON, no object).
\* for: the caller whose forwarded message the line answers, 0 for none.
NoLine == [kind |-> "none", id |-> Absent, isResp |-> FALSE, for |-> 0]

ResponseTo(entry) ==
    [kind |-> "obj", id |-> entry.msg.id, isResp |-> TRUE, for |-> entry.by]

ChildInitiated ==
    { [kind |-> "obj", id |-> Absent, isResp |-> FALSE, for |-> 0],
      [kind |-> "obj", id |-> JNum(1), isResp |-> FALSE, for |-> 0],
      [kind |-> "obj", id |-> JArray, isResp |-> TRUE, for |-> 0] }

Malformed ==
    { [kind |-> k, id |-> Absent, isResp |-> FALSE, for |-> 0] :
        k \in {"badjson", "badutf8", "jsonnumber", "jsonarray"} }

\* ------------------------------------------------------------- futures
NewFuture == [st |-> "pending", val |-> NoLine]
NoFuture == [st |-> "none", val |-> NoLine]
FutureDone(f) == f.st \in {"result", "exception", "cancelled"}

\* --------------------------------------------------------- HTTP results
NoResult == [kind |-> "none", id |-> JNull, for |-> 0, why |-> "", bound |-> 0, code |-> 0]
Ack204 == [NoResult EXCEPT !.kind = "ack"]
ErrorObject(message_id, why, bound) ==
    [kind |-> "error", id |-> message_id, for |-> 0, why |-> why,
     bound |-> bound, code |-> InternalErrorCode]

VARIABLES
    phase,              \* lifespan: "init" (module loaded), "starting" (in
                        \* create_subprocess_exec), "failed" (the spawn raised),
                        \* "serving", "stopping" (in wait()), "stopped"
    lifecycle,          \* how often the child was spawned, a reader task was
                        \* created, and terminate() was called
    mcp_process,        \* "None" or "proc"
    returncode,         \* mcp_process.returncode: "None" or "1"
    childAlive,         \* the child runs and holds its ends of the pipes
    stdinFull,          \* the child does not read its stdin and the pipe to
                        \* it is over its high-water mark
    message_id_counter,
    pending_responses,  \* internal id -> the future (named by its creator)
    fut,                \* caller -> its future
    stdinLog,           \* messages written to mcp_process.stdin, in order
    stdinWire,          \* the parts of those messages the pipe has taken
    stdinBuffer,        \* the parts held back in the transport's buffer
    linesRead,          \* number of lines readline() has returned
    lastLine,           \* the line readline() returned last (NoLine: none yet)
    lastKeys,           \* the keys of pending_responses that line matched
    reader,             \* read_mcp_responses: "none", "running", "eof", "error"
    pc,                 \* caller -> position in mcp_endpoint
    msg,                \* caller -> the body it posted
    internal_id,        \* caller -> send_mcp_request's internal_id (0: none)
    result              \* caller -> what mcp_endpoint returned

vars == <<phase, lifecycle, mcp_process, returncode, childAlive, stdinFull, message_id_counter,
          pending_responses, fut, stdinLog, stdinWire, stdinBuffer, linesRead,
          lastLine, lastKeys, reader, pc, msg, internal_id, result>>

EmptyTable == [k \in {} |-> 0]

Init ==
    /\ phase = "init"
    /\ lifecycle = [spawns |-> 0, readerTasks |-> 0, terminates |-> 0]
    /\ mcp_process = "None"
    /\ returncode = "None"
    /\ childAlive = FALSE
    /\ stdinFull = FALSE
    /\ message_id_counter = 0
    /\ pending_responses = EmptyTable
    /\ fut = [h \in Callers |-> NoFuture]
    /\ stdinLog = <<>>
    /\ stdinWire = <<>>
    /\ stdinBuffer = <<>>
    /\ linesRead = 0
    /\ lastLine = NoLine
    /\ lastKeys = {}
    /\ reader = "none"
    /\ pc = [h \in Callers |-> "idle"]
    /\ msg = [h \in Callers |-> BadBody]
    /\ internal_id = [h \in Callers |-> 0]
    /\ result = [h \in Callers |-> NoResult]

\* the startup were it run again once the child has exited
MayStart_Restart(ph, rc) == ph = "init" \/ (ph = "serving" /\ rc # "None")

\* lifespan runs start_mcp_subprocess once, when the service starts
MayStart(ph, rc) == ph = "init"

\* lifespan startup: await start_mcp_subprocess(), which suspends in
\* create_subprocess_exec; no request is served before it returns
LifespanStartup ==
    /\ MayStart(phase, returncode)
    /\ phase' = "starting"
    /\ UNCHANGED <<lifecycle, mcp_process, returncode, childAlive, stdinFull, message_id_counter,
                   pending_responses, fut, stdinLog, stdinWire, stdinBuffer, linesRead, lastLine, lastKeys,
                   reader, pc, msg, internal_id, result>>

\* create_subprocess_exec returns the child; start_mcp_subprocess creates
\* the reader task and returns; lifespan yields
StartMcpSubprocess ==
    /\ phase = "starting"
    /\ phase' = "serving"
    /\ lifecycle' = [lifecycle EXCEPT !.spawns = @ + 1, !.readerTasks = @ + 1]
    /\ mcp_process' = "proc"
    /\ returncode' = "None"
    /\ childAlive' = TRUE
    /\ reader' = "running"
    /\ UNCHANGED <<stdinFull, message_id_counter, pending_responses, fut,
                   stdinLog, stdinWire, stdinBuffer, linesRead, lastLine, lastKeys, pc, msg, internal_id, result>>

\* create_subprocess_exec raises (npx cannot be launched): the startup of
\* the service fails, no reader task is created, no request is served
SpawnFails ==
    /\ phase = "starting"
    /\ phase' = "failed"
    /\ UNCHANGED <<lifecycle, mcp_process, returncode, childAlive, stdinFull, message_id_counter,
                   pending_responses, fut, stdinLog, stdinWire, stdinBuffer, linesRead, lastLine, lastKeys,
                   reader, pc, msg, internal_id, result>>

\* the shutdown were it run again while it waits for the child
MayTerminate_Again(ph) == ph \in {"serving", "stopping"}

\* the code after lifespan's yield runs once, when the service stops
MayTerminate(ph) == ph = "serving"

\* lifespan shutdown, run by the server once no handler is in flight:
\* mcp_process.terminate(), then await mcp_process.wait(). With the exit
\* status already set, terminate() signals nothing (or raises
\* ProcessLookupError) and wait() returns at once.
Shutdown ==
    /\ MayTerminate(phase)
    /\ \A h \in Callers : pc[h] \in {"idle", "done"}
    /\ mcp_process # "None"
    /\ lifecycle' = [lifecycle EXCEPT !.terminates = @ + 1]
    /\ phase' = IF returncode # "None" THEN "stopped" ELSE "stopping"
    /\ UNCHANGED <<mcp_process, returncode, childAlive, stdinFull, message_id_counter,
                   pending_responses, fut, stdinLog, stdinWire, stdinBuffer, linesRead, lastLine, lastKeys,
                   reader, pc, msg, internal_id, result>>

\* await mcp_process.wait() returns: the exit status is set
WaitReturns ==
    /\ phase = "stopping"
    /\ returncode # "None"
    /\ phase' = "stopped"
    /\ UNCHANGED <<lifecycle, mcp_process, returncode, childAlive, stdinFull, message_id_counter,
                   pending_responses, fut, stdinLog, stdinWire, stdinBuffer, linesRead, lastLine, lastKeys,
                   reader, pc, msg, internal_id, result>>

\* ------------------------------------------------------ mcp_endpoint
\* the child's stdin: what was written, by which caller, and whether the
\* child was there to receive it
Write(log, message, h, alive) ==
    Append(log, [msg |-> message, by |-> h, seen |-> alive])

\* the registration were it put off until after the write
Register_Deferred(table, iid, h) == table

\* (json.dumps(message) + "\n").encode(): the text of the w-th message
\* written and the newline that ends it
Line(w) == <<[w |-> w, part |-> "json"], [w |-> w, part |-> "newline"]>>

\* how many of the two parts of a line os.write takes: all while the child
\* reads, none or the first while the pipe is full
OsWriteTakes(full) == IF full THEN {0, 1} ELSE {2}

\* the transport's write were it to try os.write with data still buffered
TransportWrite_SkipsBuffer(wire, buffer, data, n) ==
    [wire |-> wire \o SubSeq(data, 1, n),
     buffer |-> buffer \o SubSeq(data, n + 1, Len(data))]

\* mcp_process.stdin.write(data): behind what is buffered if anything is,
\* else to the pipe as far as os.write takes it, the rest buffered
TransportWrite(wire, buffer, data, n) ==
    IF buffer # <<>>
    THEN [wire |-> wire, buffer |-> buffer \o data]
    ELSE [wire |-> wire \o SubSeq(data, 1, n),
          buffer |-> SubSeq(data, n + 1, Len(data))]

\* request_json = json.dumps(message) + "\n"
\* mcp_process.stdin.write(request_json.encode())
\* (the transport of a pipe whose far end is closed drops the data)
StdinWrite(h, message) ==
    /\ stdinLog' = Write(stdinLog, message, h, childAlive /\ ~stdinFull)
    /\ IF childAlive
       THEN \E n \in OsWriteTakes(stdinFull) :
              LET t == TransportWrite(stdinWire, stdinBuffer, Line(Len(stdinLog) + 1), n)
              IN  /\ stdinWire' = t.wire
                  /\ stdinBuffer' = t.buffer
       ELSE UNCHANGED <<stdinWire, stdinBuffer>>

\* pending_responses[internal_id] = future
Register(table, iid, h) ==
    [k \in DOMAIN table \cup {iid} |-> IF k = iid THEN h ELSE table[k]]

\* del pending_responses[key]
Delete(table, key) == [k \in DOMAIN table \ {key} |-> table[k]]

\* the timeout path were it to leave the entry in the table
RemoveIfPresent_Skipped(table, iid) == table

\* the timeout path were it to clear the whole table
RemoveIfPresent_Clears(table, iid) == EmptyTable

\* the timeout path were it to remove the oldest entry of the table
RemoveIfPresent_Oldest(table, iid) ==
    [k \in { j \in DOMAIN table : \E i \in DOMAIN table : i < j } |-> table[k]]

\* if internal_id in pending_responses: del pending_responses[internal_id]
RemoveIfPresent(table, iid) ==
    IF iid \in DOMAIN table THEN Delete(table, iid) ELSE table

\* the return were it to hand back the child's object as it came
RestoreClientId_KeepsChildId(response, client_id) ==
    [NoResult EXCEPT !.kind = "response", !.id = response.id, !.for = response.for]

\* response["id"] = client_id; return response
RestoreClientId(response, client_id) ==
    [NoResult EXCEPT !.kind = "response", !.id = client_id, !.for = response.for]

\* the test were it to be passed whatever the exit status
ExitStatusSet_Unseen(rc) == FALSE

\* mcp_process.returncode is not None
ExitStatusSet(rc) == rc # "None"

\* StreamWriter.drain() returns without suspending while the pipe is whole
\* and under its high-water mark; it suspends when the pipe is broken (and
\* then raises) or full (until the child reads again)
DrainSuspends(alive, full) == ~alive \/ full

\* mcp_endpoint from request.json() to its first suspension. Callers are
\* numbered in the order their bodies arrive.

\* request.json() or message.get raises on a bad body while message_id is
\* still 0: caught by "except Exception"
HandleBadBody(h, m) ==
    /\ ~m.isObject
    /\ pc' = [pc EXCEPT ![h] = "done"]
    /\ result' = [result EXCEPT ![h] = ErrorObject(JNum(0), "badbody", 0)]
    /\ UNCHANGED <<message_id_counter, pending_responses, fut, internal_id, stdinLog, stdinWire, stdinBuffer>>

HandleNotification(h, m) ==
    /\ m.isObject
    /\ StartsWithNotifications(m.method)
    /\ IF mcp_process # "None" /\ ~ExitStatusSet(returncode)
       THEN /\ StdinWrite(h, m)
            /\ IF DrainSuspends(childAlive, stdinFull)
               THEN /\ pc' = [pc EXCEPT ![h] = "ndrain"]
                    /\ result' = result
               ELSE /\ pc' = [pc EXCEPT ![h] = "done"]
                    /\ result' = [result EXCEPT ![h] = Ack204]
       ELSE /\ UNCHANGED <<stdinLog, stdinWire, stdinBuffer>>
            /\ pc' = [pc EXCEPT ![h] = "done"]
            /\ result' = [result EXCEPT ![h] = Ack204]
    /\ UNCHANGED <<message_id_counter, pending_responses, fut, internal_id>>

\* the allocation were the counter not to advance past its first value
NextInternalId_Stuck(counter) == IF counter = 0 THEN 1 ELSE counter

\* message_id_counter += 1; internal_id = message_id_counter
NextInternalId(counter) == counter + 1

SendMcpRequest(h, m) ==
    /\ m.isObject
    /\ ~StartsWithNotifications(m.method)
    /\ IF mcp_process = "None"
       THEN /\ pc' = [pc EXCEPT ![h] = "done"]
            /\ result' = [result EXCEPT ![h] = ErrorObject(GetIdOrZero(m), "notrunning", 0)]
            /\ UNCHANGED <<message_id_counter, pending_responses, fut, internal_id, stdinLog, stdinWire, stdinBuffer>>
       ELSE IF ExitStatusSet(returncode)
       THEN /\ pc' = [pc EXCEPT ![h] = "done"]
            /\ result' = [result EXCEPT ![h] = ErrorObject(GetIdOrZero(m), "exited", 0)]
            /\ UNCHANGED <<message_id_counter, pending_responses, fut, internal_id, stdinLog, stdinWire, stdinBuffer>>
       ELSE /\ message_id_counter' = NextInternalId(message_id_counter)
            /\ internal_id' = [internal_id EXCEPT ![h] = message_id_counter']
            /\ fut' = [fut EXCEPT ![h] = NewFuture]
            /\ pending_responses' = Register(pending_responses, message_id_counter', h)
            /\ StdinWrite(h, SetInternalId(m, message_id_counter'))
            /\ pc' = [pc EXCEPT ![h] =
                  IF DrainSuspends(childAlive, stdinFull) THEN "drain" ELSE "wait"]
            /\ result' = result

McpEndpoint(h) ==
    /\ phase = "serving"
    /\ pc[h] = "idle"
    /\ IF h = 1 THEN TRUE ELSE pc[h - 1] # "idle"
    /\ \E m \in Messages :
        /\ msg' = [msg EXCEPT ![h] = m]
        /\ \/ HandleBadBody(h, m)
           \/ HandleNotification(h, m)
           \/ SendMcpRequest(h, m)
    /\ UNCHANGED <<phase, lifecycle, mcp_process, returncode, childAlive, stdinFull, linesRead,
                   lastLine, lastKeys, reader>>

\* await mcp_process.stdin.drain() raises ConnectionResetError (the pipe to
\* the child is broken): not a RuntimeError, caught by "except Exception"
DrainRaises(h) ==
    /\ pc[h] \in {"ndrain", "drain"}
    /\ ~childAlive
    /\ pc' = [pc EXCEPT ![h] = "done"]
    /\ result' = [result EXCEPT ![h] = ErrorObject(GetIdOrZero(msg[h]), "write", 0)]
    /\ UNCHANGED <<phase, lifecycle, mcp_process, returncode, childAlive, stdinFull, message_id_counter,
                   pending_responses, fut, stdinLog, stdinWire, stdinBuffer, linesRead, lastLine, lastKeys, reader,
                   msg, internal_id>>

\* await mcp_process.stdin.drain() returns: the child has read its stdin;
\* a notification is acknowledged, a request goes on to wait_for
DrainReturns(h) ==
    /\ pc[h] \in {"ndrain", "drain"}
    /\ ~DrainSuspends(childAlive, stdinFull)
    /\ pc' = [pc EXCEPT ![h] = IF pc[h] = "ndrain" THEN "done" ELSE "wait"]
    /\ result' = [result EXCEPT ![h] = IF pc[h] = "ndrain" THEN Ack204 ELSE @]
    /\ UNCHANGED <<phase, lifecycle, mcp_process, returncode, childAlive, stdinFull, message_id_counter,
                   pending_responses, fut, stdinLog, stdinWire, stdinBuffer, linesRead, lastLine, lastKeys, reader,
                   msg, internal_id>>

\* asyncio.wait_for(future, timeout) returns the future's result or raises
\* its exception (RuntimeError, caught by "except RuntimeError")
AwaitFuture(h) ==
    /\ pc[h] = "wait"
    /\ fut[h].st \in {"result", "exception"}
    /\ pc' = [pc EXCEPT ![h] = "done"]
    /\ result' = [result EXCEPT ![h] =
          IF fut[h].st = "result"
          THEN RestoreClientId(fut[h].val, GetIdOrNone(msg[h]))
          ELSE ErrorObject(GetIdOrZero(msg[h]), "crashed", 0)]
    /\ UNCHANGED <<phase, lifecycle, mcp_process, returncode, childAlive, stdinFull, message_id_counter,
                   pending_responses, fut, stdinLog, stdinWire, stdinBuffer, linesRead, lastLine, lastKeys, reader,
                   msg, internal_id>>

\* wait_for were it called without a timeout
TimeoutElapses_Never(f) == FALSE

\* wait_for were it to cancel the future whatever its state
TimeoutElapses_Always(f) == TRUE

\* the timeout given to wait_for elapses before the future is done
TimeoutElapses(f) == f.st = "pending"

\* the timer of wait_for fires while the future is pending: wait_for cancels
\* the future; the handler resumes in a later turn of the event loop
TimerFires(h) ==
    /\ pc[h] = "wait"
    /\ TimeoutElapses(fut[h])
    /\ fut' = [fut EXCEPT ![h].st = "cancelled"]
    /\ pc' = [pc EXCEPT ![h] = "timedout"]
    /\ UNCHANGED <<phase, lifecycle, mcp_process, returncode, childAlive, stdinFull, message_id_counter,
                   pending_responses, stdinLog, stdinWire, stdinBuffer, linesRead, lastLine, lastKeys, reader,
                   msg, internal_id, result>>

\* except asyncio.TimeoutError: remove the own entry, raise RuntimeError
TimeoutError(h) ==
    /\ pc[h] = "timedout"
    /\ pending_responses' = RemoveIfPresent(pending_responses, internal_id[h])
    /\ pc' = [pc EXCEPT ![h] = "done"]
    /\ result' = [result EXCEPT ![h] =
          ErrorObject(GetIdOrZero(msg[h]), "timeout", DefaultTimeout)]
    /\ UNCHANGED <<phase, lifecycle, mcp_process, returncode, childAlive, stdinFull, message_id_counter,
                   fut, stdinLog, stdinWire, stdinBuffer, linesRead, lastLine, lastKeys, reader, msg, internal_id>>

\* ------------------------------------------------------------ the child
\* the lines the child may have printed: an answer to any message it
\* received that carries an id, in any order, or a line of its own
ChildLines ==
    Malformed \cup ChildInitiated \cup
    { ResponseTo(stdinLog[i]) :
        i \in { j \in 1..Len(stdinLog) : stdinLog[j].seen /\ HasId(stdinLog[j].msg) } }

\* the child dies: its ends of the pipes close, the transport drops what it
\* had buffered
ChildDies ==
    /\ childAlive
    /\ childAlive' = FALSE
    /\ stdinFull' = FALSE
    /\ stdinBuffer' = <<>>
    /\ UNCHANGED <<phase, lifecycle, mcp_process, returncode, message_id_counter,
                   pending_responses, fut, stdinLog, stdinWire, linesRead, lastLine, lastKeys, reader,
                   pc, msg, internal_id, result>>

\* the child stops reading its stdin and the pipe fills up
ChildStalls ==
    /\ phase = "serving"
    /\ childAlive
    /\ ~stdinFull
    /\ stdinFull' = TRUE
    /\ UNCHANGED <<phase, lifecycle, mcp_process, returncode, childAlive, message_id_counter,
                   pending_responses, fut, stdinLog, stdinWire, stdinBuffer, linesRead, lastLine, lastKeys, reader,
                   pc, msg, internal_id, result>>

\* the child reads its stdin again: the transport flushes its buffer and
\* the child receives what was written meanwhile
ChildResumes ==
    /\ childAlive
    /\ stdinFull
    /\ stdinFull' = FALSE
    /\ stdinLog' = [i \in DOMAIN stdinLog |-> [stdinLog[i] EXCEPT !.seen = TRUE]]
    /\ stdinWire' = stdinWire \o stdinBuffer
    /\ stdinBuffer' = <<>>
    /\ UNCHANGED <<phase, lifecycle, mcp_process, returncode, childAlive, message_id_counter,
                   pending_responses, fut, linesRead, lastLine, lastKeys, reader,
                   pc, msg, internal_id, result>>

\* the event loop's child watcher reaps the child: returncode is set
ProcessExited ==
    /\ mcp_process = "proc"
    /\ ~childAlive
    /\ returncode = "None"
    /\ returncode' = "1"
    /\ UNCHANGED <<phase, lifecycle, mcp_process, childAlive, stdinFull, message_id_counter,
                   pending_responses, fut, stdinLog, stdinWire, stdinBuffer, linesRead, lastLine, lastKeys, reader,
                   pc, msg, internal_id, result>>

\* ------------------------------------------------- read_mcp_responses
\* json.loads raises JSONDecodeError: "continue"
ParseFails(line) == line.kind = "badjson"

\* line.decode() raises UnicodeDecodeError, or "id" in response / the dict
\* lookup raises TypeError (a JSON number; an unhashable id): "break"
Raises(line) ==
    \/ line.kind \in {"badutf8", "jsonnumber"}
    \/ line.kind = "obj" /\ HasId(line) /\ line.id.t = "array"

\* the match were it to fall back on the oldest pending request
MatchedKeys_OldestPending(response, table) ==
    IF /\ response.kind = "obj"
       /\ HasId(response)
       /\ response.id.t = "num"
       /\ response.id.n \in DOMAIN table
    THEN {response.id.n}
    ELSE { k \in DOMAIN table : \A j \in DOMAIN table : k <= j }

\* "id" in response and response["id"] in pending_responses
MatchedKeys(response, table) ==
    IF /\ response.kind = "obj"
       /\ HasId(response)
       /\ response.id.t = "num"
       /\ response.id.n \in DOMAIN table
    THEN {response.id.n}
    ELSE {}

\* if not future.done(): future.set_result(response)
SetResult(f, response) ==
    IF FutureDone(f) THEN f ELSE [st |-> "result", val |-> response]

\* if not future.done(): future.set_exception(RuntimeError(...))
SetException(f) ==
    IF FutureDone(f) THEN f ELSE [st |-> "exception", val |-> NoLine]

\* the futures the crash branch fails: those of pending_responses.values(),
\* and only when the exit status is already set
CrashDrained(table, rc) ==
    IF rc # "None" THEN { table[k] : k \in DOMAIN table } ELSE {}

\* pending_responses.clear(), under the same condition
CrashCleared(table, rc) == IF rc # "None" THEN EmptyTable ELSE table

\* one iteration of the loop: readline() returns a line the child printed
\* (before it died, if it is dead)
ReadLine ==
    /\ reader = "running"
    /\ linesRead < MaxLines
    /\ linesRead' = linesRead + 1
    /\ \E line \in ChildLines :
         LET keys == MatchedKeys(line, pending_responses)
         IN /\ lastLine' = line
            /\ lastKeys' = IF ParseFails(line) \/ Raises(line) THEN {} ELSE keys
            /\ IF ParseFails(line)
               THEN UNCHANGED <<reader, fut, pending_responses>>
               ELSE IF Raises(line)
               THEN /\ reader' = "error"
                    /\ UNCHANGED <<fut, pending_responses>>
               ELSE /\ reader' = reader
                    /\ fut' = [h \in Callers |->
                                 IF \E k \in keys : pending_responses[k] = h
                                 THEN SetResult(fut[h], line) ELSE fut[h]]
                    /\ pending_responses' =
                         [k \in DOMAIN pending_responses \ keys |-> pending_responses[k]]
    /\ UNCHANGED <<phase, lifecycle, mcp_process, returncode, childAlive, stdinFull, message_id_counter,
                   stdinLog, stdinWire, stdinBuffer, pc, msg, internal_id, result>>

\* readline() returns b"": end of the child's stdout
ReadEOF ==
    /\ reader = "running"
    /\ ~childAlive
    /\ reader' = "eof"
    /\ fut' = [h \in Callers |->
                 IF h \in CrashDrained(pending_responses, returncode)
                 THEN SetException(fut[h]) ELSE fut[h]]
    /\ pending_responses' = CrashCleared(pending_responses, returncode)
    /\ UNCHANGED <<phase, lifecycle, mcp_process, returncode, childAlive, stdinFull, message_id_counter,
                   stdinLog, stdinWire, stdinBuffer, linesRead, lastLine, lastKeys, pc, msg, internal_id, result>>

Next ==
    \/ LifespanStartup
    \/ StartMcpSubprocess
    \/ SpawnFails
    \/ Shutdown
    \/ WaitReturns
    \/ \E h \in Callers : McpEndpoint(h)
    \/ \E h \in Callers : DrainRaises(h)
    \/ \E h \in Callers : AwaitFuture(h)
    \/ \E h \in Callers : TimerFires(h)
    \/ \E h \in Callers : TimeoutError(h)
    \/ ChildDies
    \/ ProcessExited
    \/ ReadLine
    \/ ReadEOF

Spec == Init /\ [][Next]_vars

\* the bridge with a child that may stop reading its stdin
NextLive ==
    \/ Next
    \/ ChildStalls
    \/ ChildResumes
    \/ \E h \in Callers : DrainReturns(h)

\* the event loop runs every callback that is ready: timers fire, awaits
\* resume, the reader and the child watcher are scheduled. Nothing makes
\* the child print, read, or exit, nor a caller call.
Fairness ==
    /\ WF_vars(ProcessExited)
    /\ WF_vars(ReadEOF)
    /\ WF_vars(WaitReturns)
    /\ \A h \in Callers :
          /\ WF_vars(DrainRaises(h))
          /\ WF_vars(DrainReturns(h))
          /\ WF_vars(AwaitFuture(h))
          /\ WF_vars(TimerFires(h))
          /\ WF_vars(TimeoutError(h))

LiveSpec == Init /\ [][NextLive]_vars /\ Fairness


\* =================================================== the properties
Done(h) == pc[h] = "done"
IsNotification(h) == StartsWithNotifications(msg[h].method)
Owns(h, table) == { k \in DOMAIN table : table[k] = h }

\* C1: a caller that receives a result receives the response the child
\* produced for its own message, never the one produced for another caller's.
C1_OwnResponseOnly ==
    \A h \in Callers :
        (Done(h) /\ result[h].kind = "response" /\ result[h].for # 0)
            => result[h].for = h

\* C2: a request that completes successfully is returned with the id its
\* caller supplied, same value and same type, although the message written
\* to the child carried the internal id.
C2_IdRoundTrip ==
    \A h \in Callers :
        (Done(h) /\ result[h].kind = "response" /\ HasId(msg[h]))
            => /\ result[h].id = msg[h].id
               /\ internal_id[h] >= 1
               /\ \E i \in 1..Len(stdinLog) :
                     /\ stdinLog[i].by = h
                     /\ stdinLog[i].msg.id = JNum(internal_id[h])

\* a string id "1" came back as the string, and a numeric id 1 came back
\* as 1 from a request that went to the child as 2
C2_Witness ==
    \E g, h \in Callers :
        /\ Done(g) /\ result[g].kind = "response"
        /\ msg[g].id = JStr(1) /\ result[g].id = JStr(1)
        /\ Done(h) /\ result[h].kind = "response"
        /\ msg[h].id = JNum(1) /\ result[h].id = JNum(1) /\ internal_id[h] = 2

\* C3: a message with no id, whatever its method, never gets an entry in
\* pending_responses and completes with the empty acknowledgment.
C3_NoIdFireAndForget ==
    \A h \in Callers :
        (pc[h] # "idle" /\ ~HasId(msg[h]))
            => /\ internal_id[h] = 0
               /\ Owns(h, pending_responses) = {}
               /\ Done(h) => result[h] = Ack204

\* C4: every step of a handler whose method starts with "notifications/"
\* leaves pending_responses and message_id_counter unchanged, writes at most
\* the message itself, unchanged, never waits for the child, and when the
\* handler returns it returns the empty acknowledgment.
C4_NotificationFrame ==
    [][\A h \in Callers :
          (pc'[h] # pc[h] /\ StartsWithNotifications(msg'[h].method))
              => /\ pending_responses' = pending_responses
                 /\ message_id_counter' = message_id_counter
                 /\ \/ stdinLog' = stdinLog
                    \/ /\ Len(stdinLog') = Len(stdinLog) + 1
                       /\ SubSeq(stdinLog', 1, Len(stdinLog)) = stdinLog
                       /\ stdinLog'[Len(stdinLog')].msg = msg'[h]
                 /\ pc'[h] # "wait"
                 /\ pc'[h] = "done" => result'[h] = Ack204]_vars

\* C5: the caller of a notification is never handed a JSON-RPC error object,
\* also when the write to the child fails.
C5_NotificationNeverErrors ==
    \A h \in Callers : (Done(h) /\ IsNotification(h)) => result[h].kind # "error"

\* C6: a request that ends by timeout fails with the timeout error carrying
\* the bound, no response having been delivered to it, and its internal id
\* is no key of pending_responses once the handler has returned.
C6_TimeoutCleansUp ==
    \A h \in Callers :
        /\ pc[h] = "timedout" => fut[h].st = "cancelled"
        /\ (Done(h) /\ result[h].why = "timeout")
              => /\ result[h].kind = "error"
                 /\ result[h].bound = 30
                 /\ fut[h].st = "cancelled"
                 /\ internal_id[h] \notin DOMAIN pending_responses

\* a request has timed out and returned while another one is still pending
C6_Witness ==
    \E g, h \in Callers :
        /\ Done(h) /\ result[h].why = "timeout" /\ internal_id[h] >= 1
        /\ pc[g] = "wait" /\ internal_id[g] \in DOMAIN pending_responses

TimeoutStep(a) ==
    \/ pc[a] = "wait" /\ pc'[a] = "timedout"
    \/ pc[a] = "timedout" /\ pc'[a] = "done"

\* C7: the steps by which request A times out change neither the table
\* entry nor the future nor the handler of any other request B; a line
\* carrying the internal id of a pending B resolves B's future with that
\* line; and a handler is completed by its own future only.
C7_TimeoutIsolation ==
    [][/\ \A a \in Callers : TimeoutStep(a) =>
              \A b \in Callers \ {a} :
                  /\ fut'[b] = fut[b]
                  /\ pc'[b] = pc[b]
                  /\ result'[b] = result[b]
                  /\ Owns(b, pending_responses') = Owns(b, pending_responses)
       /\ \A b \in Callers :
              (linesRead' = linesRead + 1 /\ lastLine'.kind = "obj"
                 /\ lastLine'.id = JNum(internal_id[b])
                 /\ internal_id[b] \in DOMAIN pending_responses
                 /\ fut[b].st = "pending")
                  => fut'[b] = [st |-> "result", val |-> lastLine']
       /\ \A b \in Callers :
              (pc[b] = "wait" /\ pc'[b] = "done" /\ result'[b].kind = "response")
                  => /\ fut[b].st = "result"
                     /\ result'[b].for = fut[b].val.for]_vars

\* A has timed out and returned, B has returned with the response to B
C7_Witness ==
    \E a, b \in Callers :
        /\ a # b
        /\ Done(a) /\ result[a].why = "timeout"
        /\ Done(b) /\ result[b].kind = "response" /\ result[b].for = b

\* C8: when the reader meets the end of the child's stdout, exit status
\* observed or not, it fails every pending future with the crash error,
\* leaves pending_responses empty and terminates.
C8_CrashFanOut ==
    [][(reader = "running" /\ reader' = "eof")
          => /\ pending_responses' = EmptyTable
             /\ \A k \in DOMAIN pending_responses :
                   fut[pending_responses[k]].st = "pending"
                       => fut'[pending_responses[k]].st = "exception"]_vars

\* C9: a JSON object from the child with no id, or with a scalar id that
\* is no key of pending_responses, is dropped: the table, the futures and
\* the handlers are unchanged and the reader goes on.
C9_UnmatchedLineDropped ==
    [][(/\ linesRead' = linesRead + 1
        /\ lastLine'.kind = "obj"
        /\ lastLine'.id.t # "array"
        /\ ~(lastLine'.id.t = "num" /\ lastLine'.id.n \in DOMAIN pending_responses))
          => /\ pending_responses' = pending_responses
             /\ fut' = fut
             /\ pc' = pc
             /\ result' = result
             /\ reader' = "running"]_vars

\* the response to a request that had timed out and returned was read
\* while another request was pending, and matched nothing
C9_Witness ==
    \E g, h \in Callers :
        /\ Done(h) /\ result[h].why = "timeout"
        /\ lastLine.kind = "obj" /\ lastLine.for = h
        /\ lastLine.id = JNum(internal_id[h])
        /\ lastKeys = {}
        /\ pc[g] = "wait" /\ fut[g].st = "pending"
        /\ reader = "running"

\* C10: the reader never stops because of a malformed line of the child.
C10_ReaderSurvivesMalformed == reader # "error"

\* C11: every handler that has returned has returned an acknowledgment, a
\* response or an error object; every error object carries the code -32603
\* and the id of the caller's message (0 when the message has none), which
\* is not the internal id the message was forwarded under.
C11_FailuresAreJsonRpcErrors ==
    \A h \in Callers :
        Done(h) =>
            /\ result[h].kind \in {"ack", "response", "error"}
            /\ result[h].kind = "error" <=>
                  result[h].why \in {"timeout", "crashed", "exited", "notrunning",
                                     "write", "badbody"}
            /\ result[h].kind = "error" =>
                  /\ result[h].code = 0 - 32603
                  /\ result[h].id = IF HasId(msg[h]) THEN msg[h].id ELSE JNum(0)
                  /\ (HasId(msg[h]) /\ internal_id[h] >= 1 /\ msg[h].id # JNum(internal_id[h]))
                        => result[h].id # JNum(internal_id[h])

\* a request with the string id "1", forwarded as 1, failed by timeout with
\* its own id, and a bad body failed with the id 0
C11_Witness ==
    \E g, h \in Callers :
        /\ Done(h) /\ result[h].why = "timeout"
        /\ msg[h].id = JStr(1) /\ internal_id[h] = 1 /\ result[h].id = JStr(1)
        /\ Done(g) /\ msg[g] = BadBody
        /\ result[g].kind = "error" /\ result[g].id = JNum(0)

\* the bridge is not Running: no child, or the exit status is set, or the
\* reader has met the end of the child's stdout, or shutdown has begun
NotRunning ==
    \/ mcp_process = "None"
    \/ returncode # "None"
    \/ reader = "eof"
    \/ phase \in {"stopping", "stopped"}

\* C12: a request (a message with an id whose method is no notification)
\* handled while the bridge is not Running returns at once with the
\* process-not-running error; the step allocates no internal id, adds no
\* entry to pending_responses and writes nothing to the child's stdin.
C12_FailFastWhenNotRunning ==
    [][\A h \in Callers :
          (/\ pc[h] = "idle" /\ pc'[h] # "idle"
           /\ msg'[h].isObject /\ HasId(msg'[h])
           /\ ~StartsWithNotifications(msg'[h].method)
           /\ NotRunning)
              => /\ pc'[h] = "done"
                 /\ result'[h].kind = "error"
                 /\ result'[h].why \in {"notrunning", "exited"}
                 /\ message_id_counter' = message_id_counter
                 /\ internal_id'[h] = 0
                 /\ pending_responses' = pending_responses
                 /\ stdinLog' = stdinLog]_vars

\* the bridge's lifecycle state as a rank: Uninitialized 0, Starting 1 (also
\* after a failed spawn), Running 2, Exited 3 (crash detected or shutdown)
BridgeRank ==
    IF phase = "init" THEN 0
    ELSE IF phase \in {"starting", "failed"} THEN 1
    ELSE IF NotRunning THEN 3
    ELSE 2

\* C14: the lifecycle state never moves backwards and skips no state;
\* Running is entered only from Starting by the step that spawns the child;
\* once Exited the bridge stays Exited and no child is spawned again.
C14_LifecycleForwardOnly ==
    [][/\ BridgeRank' \in {BridgeRank, BridgeRank + 1}
       /\ (BridgeRank' = 2 /\ BridgeRank # 2)
             => /\ BridgeRank = 1
                /\ lifecycle'.spawns = lifecycle.spawns + 1
                /\ mcp_process' = "proc" /\ childAlive'
       /\ BridgeRank = 3
             => /\ BridgeRank' = 3
                /\ lifecycle'.spawns = lifecycle.spawns
                /\ ~(returncode # "None" /\ returncode' = "None")]_vars

\* the bridge became Exited by a crash, refused a request for that reason,
\* and was then shut down
C14_Witness ==
    /\ phase = "stopped" /\ reader = "eof" /\ returncode # "None"
    /\ \E h \in Callers : Done(h) /\ result[h].why = "exited"
    /\ lifecycle.spawns = 1

\* C15: the child is spawned at most once and from the moment the service
\* serves exactly once, with exactly one reader task; terminate() is called
\* at most once and exactly once by the time shutdown has completed; a live
\* child is the one child spawned.
C15_OneChildOneReader ==
    /\ lifecycle.spawns <= 1 /\ lifecycle.readerTasks <= 1 /\ lifecycle.terminates <= 1
    /\ phase \in {"serving", "stopping", "stopped"}
          => lifecycle.spawns = 1 /\ lifecycle.readerTasks = 1
    /\ phase \in {"init", "starting", "failed"}
          => lifecycle.spawns = 0 /\ lifecycle.readerTasks = 0 /\ reader = "none"
    /\ phase \in {"stopping", "stopped"} <=> lifecycle.terminates = 1
    /\ childAlive => lifecycle.spawns = 1 /\ mcp_process = "proc"
    /\ reader # "none" => lifecycle.readerTasks = 1

\* the service served a request and was shut down while the child ran: one
\* spawn, one reader task, one terminate()
C15_Witness ==
    /\ phase = "stopped"
    /\ lifecycle = [spawns |-> 1, readerTasks |-> 1, terminates |-> 1]
    /\ reader = "eof"
    /\ \E h \in Callers : Done(h) /\ result[h].kind = "response"

\* C17: the step by which a request's write to the child's stdin fails
\* returns the write error to that caller, leaves no entry of that request
\* in pending_responses, and leaves the entries, futures and handlers of
\* all other requests as they were.
C17_WriteFailureCleansUp ==
    [][\A h \in Callers :
          (pc[h] = "drain" /\ pc'[h] = "done")
              => /\ result'[h].kind = "error" /\ result'[h].why = "write"
                 /\ internal_id[h] \notin DOMAIN pending_responses'
                 /\ \A b \in Callers \ {h} :
                       /\ Owns(b, pending_responses') = Owns(b, pending_responses)
                       /\ fut'[b] = fut[b]
                       /\ pc'[b] = pc[b]]_vars

\* the callers whose message was given an internal id
Accepted == { h \in Callers : internal_id[h] >= 1 }

\* C18: the internal ids allocated so far are 1..message_id_counter, one
\* per accepted request and in the order of acceptance, also after entries
\* were removed; every key of pending_responses is one of them.
C18_InternalIdsUniqueIncreasing ==
    /\ \A h \in Accepted : internal_id[h] \in 1..message_id_counter
    /\ \A g, h \in Accepted : g < h => internal_id[g] < internal_id[h]
    /\ message_id_counter = Cardinality(Accepted)
    /\ \A k \in DOMAIN pending_responses :
          /\ k \in 1..message_id_counter
          /\ pending_responses[k] \in Accepted
          /\ internal_id[pending_responses[k]] = k

\* the request with internal id 1 has timed out and left the table; the
\* next request got 2, not 1 again
C18_Witness ==
    \E g, h \in Callers :
        /\ Done(g) /\ result[g].why = "timeout" /\ internal_id[g] = 1
        /\ 1 \notin DOMAIN pending_responses
        /\ internal_id[h] = 2 /\ 2 \in DOMAIN pending_responses
        /\ message_id_counter = 2

\* C19: a future that is done is never changed again, and a request whose
\* handler returns has its future done in the way it returns: set to the
\* child's response, cancelled by the timeout, or failed by the crash drain.
C19_SlotResolvedExactlyOnce ==
    [][\A h \in Callers :
          /\ FutureDone(fut[h]) => fut'[h] = fut[h]
          /\ (pc[h] # "done" /\ pc'[h] = "done" /\ internal_id'[h] >= 1)
                => \/ fut'[h].st = "result" /\ result'[h].kind = "response"
                   \/ fut'[h].st = "cancelled" /\ result'[h].why = "timeout"
                   \/ fut'[h].st = "exception" /\ result'[h].why = "crashed"]_vars

\* C20: every key of pending_responses is the internal id of a handler
\* that has not returned, and every handler that waits on a pending future
\* has its internal id in the table.
C20_TableInvariant ==
    /\ \A k \in DOMAIN pending_responses :
          /\ internal_id[pending_responses[k]] = k
          /\ pc[pending_responses[k]] \in {"drain", "wait", "timedout"}
    /\ \A h \in Callers :
          (pc[h] \in {"drain", "wait"} /\ fut[h].st = "pending")
              => internal_id[h] \in DOMAIN pending_responses

InFlight(h) == pc[h] \notin {"idle", "done"}

\* C13 as stated: every handler that has started eventually returns,
\* whatever the child and the reader do.
C13_EveryHandlerReturns ==
    \A h \in Callers : InFlight(h) ~> Done(h)

\* C13: every handler that has started eventually returns, or is held in
\* drain() by a child that runs and does not read its stdin; in particular
\* every handler returns once the child is gone.
C13_ReturnsUnlessChildStalled ==
    \A h \in Callers :
        InFlight(h) ~>
            (Done(h) \/ (pc[h] \in {"ndrain", "drain"} /\ childAlive /\ stdinFull))

\* a request was held in drain() by a stalled child, went on when the child
\* read again, and returned by timeout after the child had died and the
\* reader had stopped without failing it
C13_Witness ==
    \E h \in Callers :
        /\ Done(h) /\ result[h].why = "timeout"
        /\ \E i \in 1..Len(stdinLog) : stdinLog[i].by = h /\ stdinLog[i].seen
        /\ ~childAlive /\ reader = "eof"
        /\ \E g \in Callers : Done(g) /\ result[g].why = "write"

\* C16: once the shutdown waits for the child, it eventually completes.
C16_ShutdownTerminates == (phase = "stopping") ~> (phase = "stopped")

\* C25: once the exit status is set and the reader has stopped, no entry
\* remains in pending_responses: what remained was failed with the crash
\* error and purged, and is not left to the timeouts.
C25_ExitPurgesTable ==
    (returncode # "None" /\ reader \in {"eof", "error"})
        => pending_responses = EmptyTable

\* C27: every message on the child's stdin that carries an id carries the
\* internal id allocated for it; no id chosen by a client reaches the child.
C27_OnlyInternalIdsReachChild ==
    \A i \in 1..Len(stdinLog) :
        HasId(stdinLog[i].msg)
            => /\ internal_id[stdinLog[i].by] >= 1
               /\ stdinLog[i].msg.id = JNum(internal_id[stdinLog[i].by])

\* C28: whenever the reader has terminated, by end of stream or by an
\* error, pending_responses is empty and no future is left pending.
C28_ReaderExitLeavesNothingPending ==
    reader \in {"eof", "error"}
        => /\ pending_responses = EmptyTable
           /\ \A h \in Callers : fut[h].st # "pending"

\* C29: a future is set to a result only by a line of the child that is a
\* response (carries result or error), not by a message the child initiates.
C29_OnlyResponsesComplete ==
    \A h \in Callers : fut[h].st = "result" => fut[h].val.isResp

\* C30: two calls with the same id-less message that both return an object
\* return the same id, whether the object is a response or an error.
C30_SameIdInEveryOutcome ==
    \A g, h \in Callers :
        (/\ Done(g) /\ Done(h)
         /\ msg[g] = msg[h] /\ msg[g].isObject /\ ~HasId(msg[g])
         /\ result[g].kind \in {"response", "error"}
         /\ result[h].kind \in {"response", "error"})
            => result[g].id = result[h].id

\* a step of the reader task
ReaderStep == linesRead' # linesRead \/ reader' # reader

\* C21 as stated: a future changes only by a step of the reader, apart from
\* its creation; no step of a handler completes or cancels it.
C21_OnlyReaderWritesSlot ==
    [][\A h \in Callers :
          (fut'[h] # fut[h] /\ fut[h].st # "none") => ReaderStep]_vars

\* C21: a future is set to a result or to an exception only by a step of
\* the reader, out of the pending state; a handler creates its future
\* pending and changes it afterwards only by the timeout of wait_for, which
\* cancels it while it is pending.
C21_OnlyReaderSetsResult ==
    [][\A h \in Callers :
          fut'[h] # fut[h] =>
              \/ /\ ReaderStep
                 /\ fut[h].st = "pending"
                 /\ fut'[h].st \in {"result", "exception"}
              \/ /\ pc[h] = "idle" /\ pc'[h] \in {"drain", "wait"}
                 /\ fut'[h] = NewFuture
              \/ /\ pc[h] = "wait" /\ pc'[h] = "timedout"
                 /\ fut[h].st = "pending"
                 /\ fut'[h] = [fut[h] EXCEPT !.st = "cancelled"]]_vars

\* one request was cancelled by its timeout and returned the timeout error,
\* another got the crash failure from the reader and returned it
C21_Witness ==
    \E g, h \in Callers :
        /\ Done(g) /\ result[g].why = "timeout" /\ fut[g].st = "cancelled"
        /\ Done(h) /\ result[h].why = "crashed" /\ fut[h].st = "exception"

\* C22: a request on the child's stdin carries the internal id of its
\* handler, and as long as the handler's future is pending that id is a key
\* of pending_responses, from the step that wrote it on.
C22_RegisteredBeforeWritten ==
    \A i \in 1..Len(stdinLog) :
        LET e == stdinLog[i]
            h == e.by
        IN  ~StartsWithNotifications(e.msg.method)
               => /\ internal_id[h] >= 1
                  /\ e.msg.id = JNum(internal_id[h])
                  /\ fut[h].st = "pending"
                        => /\ internal_id[h] \in DOMAIN pending_responses
                           /\ pending_responses[internal_id[h]] = h

\* the response to a request was read while another request was pending,
\* and found its key
C22_Witness ==
    \E g, h \in Callers :
        /\ lastLine.isResp /\ lastLine.for = h
        /\ lastKeys = {internal_id[h]}
        /\ fut[h].st = "result" /\ fut[h].val = lastLine
        /\ pc[g] = "wait" /\ fut[g].st = "pending"

\* C24: a step that writes to the child's stdin is taken only while the
\* child exists and its exit status is not set.
C24_NoWriteAfterExit ==
    [][Len(stdinLog') > Len(stdinLog)
          => mcp_process = "proc" /\ returncode = "None"]_vars

\* with the exit status set, a request was refused and a notification was
\* acknowledged, and neither was written
C24_Witness ==
    \E g, h \in Callers :
        /\ returncode # "None"
        /\ Done(h) /\ result[h].why = "exited"
        /\ Done(g) /\ IsNotification(g) /\ result[g] = Ack204
        /\ \A i \in 1..Len(stdinLog) : stdinLog[i].by \notin {g, h}

\* C26: the step of the timeout path removes from pending_responses the
\* handler's own internal id and nothing else, also when the reader has
\* removed it before, and returns the timeout error; afterwards a line
\* carrying that id matches no key and changes no future.
C26_TimeoutRemovesOwnEntryOnly ==
    [][\A h \in Callers :
          /\ (pc[h] = "timedout" /\ pc'[h] = "done")
                => /\ DOMAIN pending_responses' =
                         DOMAIN pending_responses \ {internal_id[h]}
                   /\ \A k \in DOMAIN pending_responses' :
                         pending_responses'[k] = pending_responses[k]
                   /\ result'[h].kind = "error" /\ result'[h].why = "timeout"
          /\ (/\ Done(h) /\ result[h].why = "timeout"
              /\ linesRead' = linesRead + 1
              /\ lastLine'.id = JNum(internal_id[h]))
                => /\ lastKeys' = {}
                   /\ pending_responses' = pending_responses
                   /\ fut' = fut]_vars

\* the reader removed the entry of a request between the timer and the
\* timeout path, which then found nothing to remove; another request was
\* pending all along
C26_Witness ==
    \E g, h \in Callers :
        /\ Done(h) /\ result[h].why = "timeout"
        /\ lastLine.id = JNum(internal_id[h]) /\ lastKeys = {internal_id[h]}
        /\ fut[h].st = "cancelled"
        /\ pc[g] = "wait" /\ internal_id[g] \in DOMAIN pending_responses

\* the first n messages written, each as one complete line
WholeLines(n) ==
    [i \in 1..(2 * n) |->
        [w |-> (i + 1) \div 2, part |-> IF i % 2 = 1 THEN "json" ELSE "newline"]]

\* every message text is followed by its own newline
Framed(s) ==
    \A i \in 1..Len(s) :
        IF i % 2 = 1
        THEN s[i].part = "json"
        ELSE s[i].part = "newline" /\ s[i].w = s[i - 1].w

\* C23: what the pipe to the child has taken, followed by what the
\* transport still holds, is the messages written, whole and in the order
\* of the write calls; no part of one message lies inside another. (When
\* the child is dead its stdin ends where the pipe broke.)
C23_WritesSerialized ==
    /\ Framed(stdinWire)
    /\ childAlive => stdinWire \o stdinBuffer = WholeLines(Len(stdinLog))

\* the pipe took the text of one caller's message and not its newline, and
\* another caller's message was written behind it
C23_Witness ==
    /\ childAlive
    /\ Len(stdinWire) % 2 = 1
    /\ Len(stdinBuffer) = 3
    /\ stdinBuffer[1].part = "newline"
    /\ stdinLog[stdinBuffer[1].w].by # stdinLog[stdinBuffer[2].w].by
    /\ \A h \in Callers : pc[h] \in {"drain", "ndrain"}
====
